---- MODULE Spec2Model ----
(***************************************************************************)
(* A model of MT_SICS.go: the command/response engine DirectCommand, the   *)
(* streaming loop WeightOnKey and the catalog operations built on them.    *)
(*                                                                         *)
(* Bytes are one-character strings, byte slices are sequences of them.     *)
(* A 128-byte buffer made by make([]byte, 128) is represented by its       *)
(* written prefix: the bytes behind it are NUL, which no pattern of the    *)
(* program matches.  Time is counted in whole seconds, and a Read that     *)
(* returns has taken at least one of them.                                 *)
(***************************************************************************)
EXTENDS Integers, Sequences, FiniteSets, TLC

VARIABLES
    pc,              \* position of the calling goroutine
    op,              \* the exported function that was called
    marks,           \* for each call so far: how many Writes came before it
    argN, argT,      \* WeightOnKey's arguments as passed by the caller
    target,          \* SetTarget's arguments as passed by the caller
    numMeasurements, \* WeightOnKey: the local after lines 285-290
    timeout,         \* WeightOnKey: the local after lines 285-290
    command, regex,  \* DirectCommand's parameters
    caller,          \* the call site DirectCommand returns to
    buf,             \* the live read buffer (DirectCommand's or WeightOnKey's)
    bufFrom,         \* for each byte of buf: the command the device sent it
                     \* in reply to (0: not a reply)
    match,           \* DirectCommand's match
    sinceDcStart,    \* DirectCommand: time.Since(start)
    sinceWokStart,   \* WeightOnKey: time.Since(start)
    dcRet,           \* what DirectCommand returned: [buf, err]
    i, weightList,   \* WeightOnKey's locals
    ret,             \* what the exported function returned: [val, err]
    wire,            \* bytes the device has sent and no Read has delivered yet
    wireFrom,        \* for each byte of wire: the command it replies to
    emitted,         \* how many lines the device has sent
    answered,        \* how many of the commands it received the device has
                     \* replied to
    ackSent,         \* whether the device has sent an acknowledgement of the
                     \* command of a toggle
    cut,             \* how the transport may cut what is pending into Reads:
                     \* [splits, fragment]
    splits,          \* how many Reads have delivered less than was pending
    \* history, for the properties
    writes,          \* the Write calls so far, in order: [cmd, ok]
    hasRead,         \* whether this call has called Read
    lastIoOk,        \* whether the latest Write or Read succeeded
    prevChunk,       \* the bytes of the Read before the latest one of the
                     \* running DirectCommand
    lastChunk,       \* the bytes of the latest Read of it
    started,         \* whether the start command has been acknowledged
    onePerRead,      \* whether every Read of the collection loop so far
                     \* delivered exactly one whole frame
    loopFrames,      \* the Reads of the loop that delivered exactly one
                     \* whole frame: the frames, in order
    framesEmitted,   \* how many measurement frames the device has sent
    stopErr          \* the kind of the error the deferred stop command
                     \* returned and the closure dropped

tr == <<wire, wireFrom, splits, hasRead, lastIoOk>>

dev == <<emitted, answered, ackSent, cut>>

call == <<op, marks, argN, argT, target>>

chunks == <<prevChunk, lastChunk>>

hist == <<started, onePerRead, loopFrames, stopErr>>

vars == <<pc, call, numMeasurements, timeout, command, regex, caller,
          buf, bufFrom, match, sinceDcStart, sinceWokStart, dcRet, i,
          weightList, ret, dev, writes, hist, framesEmitted, tr, chunks>>

----------------------------------------------------------------------------
(* Bounds of the model *)

\* the largest numMeasurements argument tried
MaxCount == 2
\* the largest timeout argument tried, in seconds
MaxTimeoutArg == 2
\* the longest a single Read blocks, in seconds
MaxReadDur == 2
\* the most bytes that may be pending in the transport
MaxWire == 13
\* the most lines the device sends during one call
MaxEmit == 3
\* the most Reads of one call that deliver only a part of what is pending
MaxSplits == 1
\* the most bytes such a Read delivers
MaxFragment == 3
\* the most calls of SetTarget in a row
MaxCalls == 2
\* the same two for the transport under which the toggles and SetTarget
\* are explored
MaxCommandSplits == 2
MaxCommandFragment == 4

----------------------------------------------------------------------------
(* Go values *)

\* 1<<63 - 1.  TLC's integers are 32 bits wide; the value is only ever
\* compared with a count or an elapsed time, never added to, so the largest
\* integer TLC has stands for it.
MaxInt64 == 2147483647
\* the smallest int, likewise
MinInt64 == -2147483647

\* int(math.Inf(1)): the conversion of a float the type cannot represent is
\* implementation-dependent.  amd64 yields MinInt64, arm64 saturates.
InfAsInt == {MinInt64, MaxInt64}

\* timeout := 5 * time.Second
CommandTimeout == 5

\* make([]byte, 128)
BufSize == 128

Nil == [kind |-> "nil"]
\* a nil []byte, as opposed to a buffer
NilSlice == <<"<nil>">>
TransportErr == [kind |-> "transport"]
ConfigErr == [kind |-> "config"]
\* fmt.Errorf("command '%s' timed-out, want: %s, got: %s", ...)
TimeoutErr(cmd, want, got) ==
    [kind |-> "timeout", command |-> cmd, want |-> want, got |-> got]

----------------------------------------------------------------------------
(* Bytes and regular expressions *)

Digits == {"0", "1", "2", "3", "4", "5", "6", "7", "8", "9"}
Letters == {"A", "L", "S", "T", "W", "P", "R", "E", "I", "g", "k"}
CRLF == <<"\r", "\n">>

One(c) == [cls |-> c, q |-> "1"]
Plus(c) == [cls |-> c, q |-> "+"]
Opt(c) == [cls |-> c, q |-> "?"]

\* regexp.MustCompile: the pattern as a sequence of quantified character
\* classes, with its capture groups as <<first element, last element>>.
Compile(src) ==
    CASE src = "ST A" ->
           [re |-> <<One({"S"}), One({"T"}), One({" "}), One({"A"})>>,
            groups |-> <<>>]
      [] src = "ST [AL]" ->
           [re |-> <<One({"S"}), One({"T"}), One({" "}), One({"A", "L"})>>,
            groups |-> <<>>]
      [] src = "ST +(-?[0-9]+\\.[0-9]+) ([a-zA-Z]+)" ->
           [re |-> <<One({"S"}), One({"T"}), Plus({" "}), Opt({"-"}),
                     Plus(Digits), One({"."}), Plus(Digits), One({" "}),
                     Plus(Letters)>>,
            groups |-> << <<4, 7>>, <<9, 9>> >>]
      [] src = "A10 A" ->
           [re |-> <<One({"A"}), One({"1"}), One({"0"}), One({" "}),
                     One({"A"})>>,
            groups |-> <<>>]
      [] src = "WS" ->
           [re |-> <<One({"W"}), One({"S"})>>, groups |-> <<>>]
      [] src = "WS [AL]" ->
           [re |-> <<One({"W"}), One({"S"}), One({" "}), One({"A", "L"})>>,
            groups |-> <<>>]
      [] src = "PWR [AL]" ->
           [re |-> <<One({"P"}), One({"W"}), One({"R"}), One({" "}),
                     One({"A", "L"})>>,
            groups |-> <<>>]

NoMatch == <<0>>

\* the end of the longest run of bytes of class cls that starts at s[p]
RECURSIVE RunEnd(_, _, _)
RunEnd(cls, s, p) ==
    IF p <= Len(s) /\ s[p] \in cls THEN RunEnd(cls, s, p + 1) ELSE p

\* The position after each of the elements k.. of re when re[k..] matches s
\* at p, NoMatch otherwise.  Every quantified class of the program's
\* patterns is disjoint from the element after it, so the greedy choice is
\* the only one and no backtracking is needed.
RECURSIVE MatchEnds(_, _, _, _)
MatchEnds(re, s, p, k) ==
    IF k > Len(re) THEN <<>>
    ELSE LET e == re[k]
             here == p <= Len(s) /\ s[p] \in e.cls
             q == CASE e.q = "1" -> IF here THEN p + 1 ELSE 0
                    [] e.q = "+" -> IF here THEN RunEnd(e.cls, s, p) ELSE 0
                    [] e.q = "?" -> IF here THEN p + 1 ELSE p
         IN IF q = 0 THEN NoMatch
            ELSE LET rest == MatchEnds(re, s, q, k + 1)
                 IN IF rest = NoMatch THEN NoMatch ELSE <<q>> \o rest

MatchesAt(rx, s, p) == MatchEnds(rx.re, s, p, 1) # NoMatch

\* regex.Match(b)
Match(src, s) == \E p \in 1..Len(s) : MatchesAt(Compile(src), s, p)

\* regex.FindStringSubmatch(s): the leftmost match and its groups
FindStringSubmatch(src, s) ==
    LET rx == Compile(src)
        hits == {p \in 1..Len(s) : MatchesAt(rx, s, p)}
    IN IF hits = {} THEN <<>>
       ELSE LET p == CHOOSE x \in hits : \A y \in hits : x <= y
                ends == MatchEnds(rx.re, s, p, 1)
                from(k) == IF k = 1 THEN p ELSE ends[k - 1]
                group(g) == SubSeq(s, from(g[1]), ends[g[2]] - 1)
            IN <<SubSeq(s, p, ends[Len(ends)] - 1)>>
               \o [n \in 1..Len(rx.groups) |-> group(rx.groups[n])]

\* connection.Read(buf): the n bytes read replace buf[0:n], the rest of buf
\* keeps what earlier reads left there
Overlay(b, chunk) ==
    chunk \o (IF Len(b) > Len(chunk) THEN SubSeq(b, Len(chunk) + 1, Len(b))
              ELSE <<>>)

DigitVal(c) ==
    CASE c = "0" -> 0 [] c = "1" -> 1 [] c = "2" -> 2 [] c = "3" -> 3
      [] c = "4" -> 4 [] c = "5" -> 5 [] c = "6" -> 6 [] c = "7" -> 7
      [] c = "8" -> 8 [] c = "9" -> 9

RECURSIVE DecVal(_)
DecVal(ds) ==
    IF ds = <<>> THEN 0
    ELSE 10 * DecVal(SubSeq(ds, 1, Len(ds) - 1)) + DigitVal(ds[Len(ds)])

\* num * 10^-exp without trailing zeros in the fraction
RECURSIVE Normal(_, _)
Normal(num, exp) ==
    IF exp > 0 /\ num % 10 = 0 THEN Normal(num \div 10, exp - 1)
    ELSE [num |-> num, exp |-> exp]

\* a float64 holds values below 1.8e308
Float64MaxDigits == 308

\* strconv.ParseFloat(s, 64) of a text matched by -?[0-9]+\.[0-9]+ : the
\* number it denotes, or a range error when float64 cannot hold it
ParseFloat(s) ==
    LET neg == s[1] = "-"
        t == IF neg THEN Tail(s) ELSE s
        dot == CHOOSE p \in 1..Len(t) : t[p] = "."
        whole == SubSeq(t, 1, dot - 1)
        frac == SubSeq(t, dot + 1, Len(t))
        mag == DecVal(whole \o frac)
    IN IF Len(whole) > Float64MaxDigits
       THEN [err |-> [kind |-> "range"], val |-> Normal(0, 0)]
       ELSE [err |-> Nil,
             val |-> Normal(IF neg THEN -mag ELSE mag, Len(frac))]

----------------------------------------------------------------------------
(* The device and the transport *)

LineStA == <<"S", "T", " ", "A">> \o CRLF
LineStL == <<"S", "T", " ", "L">> \o CRLF
Frame1 == <<"S", "T", " ", " ", "1", ".", "5", " ", "g">> \o CRLF
Frame2 == <<"S", "T", " ", "-", "2", ".", "5", "0", " ", "k", "g">> \o CRLF
LineWs(d) == <<"W", "S", " ", d>> \o CRLF
LinePwrA == <<"P", "W", "R", " ", "A">> \o CRLF
LinePwrL == <<"P", "W", "R", " ", "L">> \o CRLF
LinePwrI == <<"P", "W", "R", " ", "I">> \o CRLF
LineWsA == <<"W", "S", " ", "A">> \o CRLF
LineWsL == <<"W", "S", " ", "L">> \o CRLF
LineWsI == <<"W", "S", " ", "I">> \o CRLF
LineA10A == <<"A", "1", "0", " ", "A">> \o CRLF
LineA10L == <<"A", "1", "0", " ", "L">> \o CRLF
\* the reply to a command the device cannot execute now
LineEL == <<"E", "L">> \o CRLF

\* the door states the device reports in the model
DoorDigits == {"0", "8", "9"}

\* what the device may send while a call of o is in progress
DeviceLines(o) ==
    CASE o = "WeightOnKey" -> {LineStA, LineStL, Frame1, Frame2}
      [] o = "GetDoorStatus" -> {LineWs(d) : d \in DoorDigits}
      [] o = "SetTarget" -> {LineA10A, LineA10L}
      [] o \in {"PowerOn", "PowerOff"} ->
           {LinePwrA, LinePwrL, LinePwrI, LineEL}
      [] o \in {"CloseAllDoors", "OpenRightDoor", "OpenLeftDoor"} ->
           {LineWsA, LineWsL, LineWsI, LineEL}
      [] OTHER -> {}

Min(a, b) == IF a < b THEN a ELSE b

\* no call of SetTarget yet
NoTarget == [relativeTolerance |-> FALSE]

Frames == {Frame1, Frame2}

\* Elapsed times stop counting here: past every deadline of the model, so
\* that a loop that never ends has finitely many states
ClockCap == CommandTimeout + MaxTimeoutArg + MaxReadDur

----------------------------------------------------------------------------
(* The state after construction: nothing called yet, nothing pending *)

Constructed ==
    /\ pc = "idle"
    /\ op = "none"
    /\ marks = <<>>
    /\ target = NoTarget
    /\ argN = 0
    /\ argT = 0
    /\ numMeasurements = 0
    /\ timeout = 0
    /\ command = ""
    /\ regex = ""
    /\ caller = "none"
    /\ buf = <<>>
    /\ bufFrom = <<>>
    /\ match = FALSE
    /\ sinceDcStart = 0
    /\ sinceWokStart = 0
    /\ dcRet = [buf |-> NilSlice, err |-> Nil]
    /\ i = 0
    /\ weightList = <<>>
    /\ ret = [val |-> <<>>, err |-> Nil]
    /\ wire = <<>>
    /\ wireFrom = <<>>
    /\ emitted = 0
    /\ answered = 0
    /\ ackSent = FALSE
    /\ splits = 0
    /\ writes = <<>>
    /\ hasRead = FALSE
    /\ lastIoOk = TRUE
    /\ prevChunk = <<>>
    /\ lastChunk = <<>>
    /\ started = FALSE
    /\ onePerRead = TRUE
    /\ loopFrames = <<>>
    /\ framesEmitted = 0
    /\ stopErr = "none"

\* a transport that cuts seldom and short
Init ==
    /\ Constructed
    /\ cut = [splits |-> MaxSplits, fragment |-> MaxFragment]

\* a transport that cuts more often and longer
InitCommand ==
    /\ Constructed
    /\ cut = [splits |-> MaxCommandSplits, fragment |-> MaxCommandFragment]

\* n times the tag t
Tags(n, t) == [j \in 1..n |-> t]

\* the replies that acknowledge the command of o
AckLines(o) ==
    CASE o \in {"PowerOn", "PowerOff"} -> {LinePwrA, LinePwrL}
      [] o \in {"CloseAllDoors", "OpenRightDoor", "OpenLeftDoor"} ->
           {LineWsA, LineWsL}
      [] OTHER -> {}

\* the device sends a line of its own accord
DeviceEmit(line) ==
    /\ pc \notin {"idle", "done", "panic"}
    /\ emitted < MaxEmit
    /\ Len(wire) + Len(line) <= MaxWire
    /\ wire' = wire \o line
    /\ wireFrom' = wireFrom \o Tags(Len(line), 0)
    /\ emitted' = emitted + 1
    /\ ackSent' = (ackSent \/ line \in AckLines(op))
    /\ framesEmitted' = IF line \in Frames THEN framesEmitted + 1
                        ELSE framesEmitted
    /\ UNCHANGED <<pc, call, numMeasurements, timeout, command, regex, caller,
                   buf, bufFrom, match, sinceDcStart, sinceWokStart, dcRet, i,
                   weightList, ret, answered, cut, splits, writes, hasRead,
                   lastIoOk, hist, chunks>>

\* how many commands the device has received
Sent == Cardinality({j \in 1..Len(writes) : writes[j].ok})

\* the device replies to the oldest command it has not replied to yet
DeviceReply(line) ==
    /\ pc \notin {"idle", "done", "panic"}
    /\ answered < Sent
    /\ emitted < MaxEmit
    /\ Len(wire) + Len(line) <= MaxWire
    /\ wire' = wire \o line
    /\ wireFrom' = wireFrom \o Tags(Len(line), answered + 1)
    /\ answered' = answered + 1
    /\ emitted' = emitted + 1
    /\ UNCHANGED <<pc, call, numMeasurements, timeout, command, regex, caller,
                   buf, bufFrom, match, sinceDcStart, sinceWokStart, dcRet, i,
                   weightList, ret, ackSent, cut, splits, writes, hasRead,
                   lastIoOk, hist, chunks, framesEmitted>>

\* connection.Read(buf) returns n = k and no error: the next k pending
\* bytes, or none at all when none is pending (io.Reader allows 0, nil)
TransportRead(k) ==
    /\ k <= Min(Len(wire), BufSize)
    /\ k = 0 => wire = <<>>
    /\ k < Len(wire) => splits < cut.splits /\ k <= cut.fragment
    /\ wire' = SubSeq(wire, k + 1, Len(wire))
    /\ wireFrom' = SubSeq(wireFrom, k + 1, Len(wireFrom))
    /\ splits' = IF k < Len(wire) THEN splits + 1 ELSE splits
    /\ hasRead' = TRUE
    /\ lastIoOk' = TRUE

\* connection.Read(buf) returns an error
TransportReadFail ==
    /\ hasRead' = TRUE
    /\ lastIoOk' = FALSE
    /\ UNCHANGED <<wire, wireFrom, splits>>

----------------------------------------------------------------------------
(* DirectCommand *)

NoRet == [buf |-> NilSlice, err |-> Nil]

\* DirectCommand(connection, cmd, rx) called from call site site
EnterDirectCommand(cmd, rx, site) ==
    /\ command' = cmd
    /\ regex' = rx
    /\ caller' = site
    /\ pc' = "dc_write"

\* the caller has taken DirectCommand's results: its locals are gone
LeaveDirectCommand ==
    /\ match' = FALSE
    /\ sinceDcStart' = 0
    /\ dcRet' = NoRet
    /\ prevChunk' = <<>>
    /\ lastChunk' = <<>>

\* a read loop that forgets its deadline
DcLoopNoDeadline == ~match

\* the condition of the read loop: !match && time.Since(start) < timeout
DcLoopContinues == ~match /\ sinceDcStart < CommandTimeout

\* what DirectCommand does when connection.Write fails
DcWriteFailed ==
    /\ dcRet' = [buf |-> NilSlice, err |-> TransportErr]
    /\ pc' = "dc_ret"
    /\ UNCHANGED <<buf, bufFrom, match, sinceDcStart>>

\* a DirectCommand that tries again when connection.Read fails
DcReadRetried == UNCHANGED <<dcRet, pc, buf, bufFrom, match>>

\* what DirectCommand does when connection.Read fails
DcReadFailed ==
    /\ dcRet' = [buf |-> NilSlice, err |-> TransportErr]
    /\ pc' = "dc_ret"
    /\ UNCHANGED <<buf, bufFrom, match>>

\* what a Read does to DirectCommand's buffer
DcFill(b, chunk) == Overlay(b, chunk)

\* connection.Write([]byte(command + "\r\n")), then the locals of the loop
DcWrite(ok) ==
    /\ pc = "dc_write"
    /\ writes' = Append(writes, [cmd |-> command \o "\r\n", ok |-> ok])
    /\ lastIoOk' = ok
    /\ IF ok
       THEN /\ buf' = <<>>
            /\ bufFrom' = <<>>
            /\ match' = FALSE
            /\ sinceDcStart' = 0
            /\ pc' = "dc_loop"
            /\ UNCHANGED dcRet
       ELSE DcWriteFailed
    /\ UNCHANGED <<call, numMeasurements, timeout, command, regex, caller,
                   sinceWokStart, i, weightList, ret, wire, wireFrom, dev,
                   splits, hasRead, hist, framesEmitted, chunks>>

\* one pass of the loop: a Read that delivers the next k pending bytes after
\* blocking for d seconds, then the match against the whole buffer
DcRead(k, d) ==
    /\ pc = "dc_loop"
    /\ DcLoopContinues
    /\ TransportRead(k)
    /\ buf' = DcFill(buf, SubSeq(wire, 1, k))
    /\ bufFrom' = DcFill(bufFrom, SubSeq(wireFrom, 1, k))
    /\ sinceDcStart' = Min(sinceDcStart + d, ClockCap)
    /\ match' = Match(regex, buf')
    /\ prevChunk' = lastChunk
    /\ lastChunk' = SubSeq(wire, 1, k)
    /\ UNCHANGED <<pc, call, numMeasurements, timeout, command,
                   regex, caller, sinceWokStart, dcRet, i, weightList, ret,
                   dev, writes, hist, framesEmitted>>

\* one pass of the loop whose Read returns an error
DcReadFail ==
    /\ pc = "dc_loop"
    /\ DcLoopContinues
    /\ TransportReadFail
    /\ DcReadFailed
    /\ UNCHANGED <<call, numMeasurements, timeout, command, regex,
                   caller, sinceDcStart, sinceWokStart, i, weightList, ret,
                   dev, writes, hist, framesEmitted,
                   chunks>>

\* the loop has ended: if !match { err = ... }; return buf, err
DcExit ==
    /\ pc = "dc_loop"
    /\ ~DcLoopContinues
    /\ dcRet' = [buf |-> buf,
                 err |-> IF ~match THEN TimeoutErr(command, regex, buf)
                         ELSE Nil]
    /\ pc' = "dc_ret"
    /\ UNCHANGED <<call, numMeasurements, timeout, command, regex,
                   caller, buf, bufFrom, match, sinceDcStart, sinceWokStart, i,
                   weightList, ret, dev, writes, hist,
                   framesEmitted, tr, chunks>>

\* an exported function is called
BeginCall(o) ==
    /\ op' = o
    /\ marks' = Append(marks, Len(writes))

\* the exported function returns
Return(val, err) ==
    /\ pc' = "done"
    /\ ret' = [val |-> val, err |-> err]

----------------------------------------------------------------------------
(* WeightOnKey *)

\* a check that takes a negative count for the infinite one
BothInfiniteSlip(n, t) == t = 0 /\ n < 0

\* if timeout == 0 && numMeasurements == 0
BothInfinite(n, t) == t = 0 /\ n = 0

InitRegex == "ST A"
StopRegex == "ST [AL]"
WeightRegex == "ST +(-?[0-9]+\\.[0-9]+) ([a-zA-Z]+)"

\* the call, up to the Write of the start command
CallWeightOnKey(n, t) ==
    /\ pc = "idle"
    /\ BeginCall("WeightOnKey")
    /\ argN' = n
    /\ argT' = t
    /\ IF BothInfinite(n, t)
       THEN /\ Return(<<>>, ConfigErr)
            /\ UNCHANGED <<numMeasurements, timeout, command, regex, caller>>
       ELSE /\ timeout' = IF t = 0 THEN MaxInt64 ELSE t
            /\ numMeasurements' \in (IF n = 0 THEN InfAsInt ELSE {n})
            /\ EnterDirectCommand("ST 1", InitRegex, "WokStart")
            /\ UNCHANGED ret
    /\ UNCHANGED <<target, buf, bufFrom, match, sinceDcStart, sinceWokStart,
                   dcRet, i, weightList, dev, writes, hist, framesEmitted,
                   tr, chunks>>

\* a start that takes only a failed transport for a failure
WokStartFailedOnTransportOnly == dcRet.err = TransportErr

\* _, err := DirectCommand(connection, "ST 1", initRegex); if err != nil
WokStartFailed == dcRet.err # Nil

\* DirectCommand("ST 1") has returned
WokStarted ==
    /\ pc = "dc_ret"
    /\ caller = "WokStart"
    /\ IF WokStartFailed
       THEN /\ Return(<<>>, dcRet.err)
            /\ UNCHANGED <<sinceWokStart, i, weightList>>
       ELSE /\ sinceWokStart' = 0
            /\ i' = 0
            /\ weightList' = <<>>
            /\ pc' = "wok_loop"
            /\ UNCHANGED ret
    /\ started' = (dcRet.err = Nil)
    /\ buf' = <<>>
    /\ bufFrom' = <<>>
    /\ LeaveDirectCommand
    /\ UNCHANGED <<call, numMeasurements, timeout, command, regex,
                   caller, dev, writes, onePerRead, loopFrames,
                   stopErr, framesEmitted, tr>>

\* a collection loop that is off by one
WokLoopOffByOne == i <= numMeasurements /\ sinceWokStart < timeout

\* the condition of the collection loop
WokLoopContinues == i < numMeasurements /\ sinceWokStart < timeout

\* a counter that runs ahead of the list
NextCountSkips(c) == c + 2

\* i++
NextCount(c) == c + 1

\* what the body of the loop does with the buffer after a Read
WokCollect(b) ==
    IF Match(WeightRegex, b)
    THEN LET result == FindStringSubmatch(WeightRegex, b)
             parsed == ParseFloat(result[2])
         IN IF parsed.err # Nil
            THEN /\ Return(<<>>, parsed.err)
                 /\ UNCHANGED <<weightList, i>>
            ELSE /\ weightList' = Append(weightList,
                                    [Weight |-> parsed.val, Unit |-> result[3]])
                 /\ i' = NextCount(i)
                 /\ UNCHANGED <<pc, ret>>
    ELSE UNCHANGED <<weightList, i, pc, ret>>

\* one pass of the collection loop
WokRead(k, d) ==
    /\ pc = "wok_loop"
    /\ WokLoopContinues
    /\ TransportRead(k)
    /\ buf' = Overlay(buf, SubSeq(wire, 1, k))
    /\ bufFrom' = Overlay(bufFrom, SubSeq(wireFrom, 1, k))
    /\ sinceWokStart' = Min(sinceWokStart + d, ClockCap)
    /\ WokCollect(buf')
    /\ onePerRead' = (onePerRead /\ SubSeq(wire, 1, k) \in Frames)
    /\ loopFrames' = IF SubSeq(wire, 1, k) \in Frames
                     THEN Append(loopFrames, SubSeq(wire, 1, k))
                     ELSE loopFrames
    /\ UNCHANGED <<call, numMeasurements, timeout, command, regex,
                   caller, match, sinceDcStart, dcRet, dev, writes,
                   started, stopErr, framesEmitted, chunks>>

\* a loop that hands out what it has collected when connection.Read fails
WokReadFailedKeepsList == Return(weightList, TransportErr)

\* what WeightOnKey does when connection.Read fails in the loop
WokReadFailed == Return(<<>>, TransportErr)

\* one pass of the collection loop whose Read returns an error
WokReadFail ==
    /\ pc = "wok_loop"
    /\ WokLoopContinues
    /\ TransportReadFail
    /\ WokReadFailed
    /\ onePerRead' = FALSE
    /\ UNCHANGED <<call, numMeasurements, timeout, command, regex,
                   caller, buf, bufFrom, match, sinceDcStart, sinceWokStart,
                   dcRet, i, weightList, dev, writes, started, loopFrames,
                   stopErr, framesEmitted, chunks>>

\* the loop has ended: the defer is registered and return weightList, nil
\* runs it, which calls DirectCommand("ST 0"); buf and start are not used
\* again
WokExit ==
    /\ pc = "wok_loop"
    /\ ~WokLoopContinues
    /\ EnterDirectCommand("ST 0", StopRegex, "WokStop")
    /\ buf' = <<>>
    /\ bufFrom' = <<>>
    /\ sinceWokStart' = 0
    /\ UNCHANGED <<call, numMeasurements, timeout, match,
                   sinceDcStart, dcRet, i, weightList, ret,
                   dev, writes, hist, framesEmitted, tr,
                   chunks>>

\* a return that hands the caller the error of the stop command
WokStopErrSurfaced == dcRet.err

\* the error of return weightList, nil: the closure assigns the results of
\* DirectCommand("ST 0") to blanks
WokStopErr == Nil

\* the deferred DirectCommand("ST 0") has returned; its results are dropped
WokStopped ==
    /\ pc = "dc_ret"
    /\ caller = "WokStop"
    /\ Return(weightList, WokStopErr)
    /\ stopErr' = dcRet.err.kind
    /\ buf' = <<>>
    /\ bufFrom' = <<>>
    /\ LeaveDirectCommand
    /\ UNCHANGED <<call, numMeasurements, timeout, command, regex,
                   caller, sinceWokStart, i, weightList, dev, writes,
                   started, onePerRead, loopFrames, framesEmitted, tr>>

----------------------------------------------------------------------------
(* GetDoorStatus and PowerOn *)

DoorStatusRegex == "WS"
DoorStatusCommand == "WS ([0-9])"

CallGetDoorStatus ==
    /\ pc = "idle"
    /\ BeginCall("GetDoorStatus")
    /\ EnterDirectCommand(DoorStatusCommand, DoorStatusRegex, "GetDoorStatus")
    /\ UNCHANGED <<argN, argT, target, numMeasurements, timeout, buf,
                   bufFrom, match, sinceDcStart, sinceWokStart, dcRet, i,
                   weightList, ret, dev, writes, hist, framesEmitted, tr,
                   chunks>>

\* DirectCommand has returned to GetDoorStatus: result[1] of a result that
\* holds fewer than two strings is an index out of range
DoorStatusReturn ==
    /\ pc = "dc_ret"
    /\ caller = "GetDoorStatus"
    /\ IF dcRet.err # Nil
       THEN Return(<<>>, dcRet.err)
       ELSE LET result == FindStringSubmatch(regex, dcRet.buf)
            IN IF Len(result) >= 2
               THEN Return(result[2], Nil)
               ELSE /\ pc' = "panic"
                    /\ UNCHANGED ret
    /\ buf' = <<>>
    /\ bufFrom' = <<>>
    /\ LeaveDirectCommand
    /\ UNCHANGED <<call, numMeasurements, timeout, command, regex,
                   caller, sinceWokStart, i, weightList, dev, writes,
                   hist, framesEmitted, tr>>

PowerRegex == "PWR [AL]"

CallPowerOn ==
    /\ pc = "idle"
    /\ BeginCall("PowerOn")
    /\ EnterDirectCommand("PWR 1", PowerRegex, "PowerOn")
    /\ UNCHANGED <<argN, argT, target, numMeasurements, timeout, buf,
                   bufFrom, match, sinceDcStart, sinceWokStart, dcRet, i,
                   weightList, ret, dev, writes, hist, framesEmitted, tr,
                   chunks>>

PowerOnReturn ==
    /\ pc = "dc_ret"
    /\ caller = "PowerOn"
    /\ Return(<<>>, dcRet.err)
    /\ buf' = <<>>
    /\ bufFrom' = <<>>
    /\ LeaveDirectCommand
    /\ UNCHANGED <<call, numMeasurements, timeout, command, regex,
                   caller, sinceWokStart, i, weightList, dev, writes,
                   hist, framesEmitted, tr>>

\* PowerOff, CloseAllDoors, OpenRightDoor, OpenLeftDoor
ToggleCommand(o) ==
    CASE o = "PowerOff" -> "PWR 0"
      [] o = "CloseAllDoors" -> "WS 0"
      [] o = "OpenRightDoor" -> "WS 1"
      [] o = "OpenLeftDoor" -> "WS 2"

ToggleRegex(o) == IF o = "PowerOff" THEN PowerRegex ELSE "WS [AL]"

CallToggle(o) ==
    /\ pc = "idle"
    /\ BeginCall(o)
    /\ EnterDirectCommand(ToggleCommand(o), ToggleRegex(o), "Toggle")
    /\ UNCHANGED <<argN, argT, target, numMeasurements, timeout, buf,
                   bufFrom, match, sinceDcStart, sinceWokStart, dcRet, i,
                   weightList, ret, dev, writes, hist, framesEmitted, tr,
                   chunks>>

\* _, err := DirectCommand(...); return err
ToggleReturn ==
    /\ pc = "dc_ret"
    /\ caller = "Toggle"
    /\ Return(<<>>, dcRet.err)
    /\ buf' = <<>>
    /\ bufFrom' = <<>>
    /\ LeaveDirectCommand
    /\ UNCHANGED <<call, numMeasurements, timeout, command, regex,
                   caller, sinceWokStart, i, weightList, dev, writes,
                   hist, framesEmitted, tr>>

----------------------------------------------------------------------------
(* SetTarget *)

DigitStr(d) ==
    CASE d = 0 -> "0" [] d = 1 -> "1" [] d = 2 -> "2" [] d = 3 -> "3"
      [] d = 4 -> "4" [] d = 5 -> "5" [] d = 6 -> "6" [] d = 7 -> "7"
      [] d = 8 -> "8" [] d = 9 -> "9"

\* the decimal digits of a natural number
RECURSIVE Itoa(_)
Itoa(n) == IF n < 10 THEN DigitStr(n) ELSE Itoa(n \div 10) \o DigitStr(n % 10)

\* strconv.FormatFloat(v, 'f', 2, 64) of a value num * 10^-exp that has at
\* most two decimals: sign, integer part, point, two digits
FormatFloat(v) ==
    LET mag == IF v.num < 0 THEN -v.num ELSE v.num
        h == IF v.exp = 0 THEN 100 * mag
             ELSE IF v.exp = 1 THEN 10 * mag ELSE mag
    IN (IF v.num < 0 THEN "-" ELSE "") \o Itoa(h \div 100) \o "."
       \o DigitStr((h \div 10) % 10) \o DigitStr(h % 10)

TargetRegex == "A10 A"

\* the arguments tried: 12.5 and -3, 0.1, 0.2
TargetArgs ==
    [target : {[num |-> 125, exp |-> 1], [num |-> -3, exp |-> 0]},
     unit : {"g", "kg"},
     upperTolerance : {[num |-> 1, exp |-> 1]},
     lowerTolerance : {[num |-> 2, exp |-> 1]},
     relativeTolerance : BOOLEAN]

\* unit as the tolerance commands see it: if relativeTolerance { unit = "%" }
ToleranceUnit(a) == IF a.relativeTolerance THEN "%" ELSE a.unit

\* targetString, upperToleranceString, lowerToleranceString
TargetCommand(j, a) ==
    CASE j = 0 -> "A10 0 " \o FormatFloat(a.target) \o " " \o a.unit \o ""
      [] j = 1 -> "A10 1 " \o FormatFloat(a.upperTolerance) \o " "
                  \o ToleranceUnit(a) \o ""
      [] j = 2 -> "A10 2 " \o FormatFloat(a.lowerTolerance) \o " "
                  \o ToleranceUnit(a) \o ""

\* the call sites of DirectCommand in SetTarget
TargetSite(j) ==
    CASE j = 0 -> "SetTarget0" [] j = 1 -> "SetTarget1" [] j = 2 -> "SetTarget2"

\* the call, up to the Write of the first command; after a call has
\* returned the caller may make it again
CallSetTarget(a) ==
    /\ \/ pc = "idle"
       \/ /\ pc = "done" /\ op = "SetTarget" /\ Len(marks) < MaxCalls
          /\ a = target
    /\ BeginCall("SetTarget")
    /\ target' = a
    /\ ret' = [val |-> <<>>, err |-> Nil]
    /\ EnterDirectCommand(TargetCommand(0, a), TargetRegex, TargetSite(0))
    /\ UNCHANGED <<argN, argT, numMeasurements, timeout, buf, bufFrom, match,
                   sinceDcStart, sinceWokStart, dcRet, i, weightList, dev,
                   writes, hist, framesEmitted, tr, chunks>>

\* a SetTarget that goes on after a command that failed
TargetFailedNever == FALSE

\* if err != nil after the first and the second DirectCommand
TargetFailed == dcRet.err # Nil

\* the first (j = 0) or second (j = 1) DirectCommand has returned
SetTargetStep(j) ==
    /\ pc = "dc_ret"
    /\ caller = TargetSite(j)
    /\ IF TargetFailed
       THEN /\ Return(<<>>, dcRet.err)
            /\ UNCHANGED <<command, regex, caller>>
       ELSE /\ EnterDirectCommand(TargetCommand(j + 1, target), TargetRegex,
                                  TargetSite(j + 1))
            /\ UNCHANGED ret
    /\ buf' = <<>>
    /\ bufFrom' = <<>>
    /\ LeaveDirectCommand
    /\ UNCHANGED <<call, numMeasurements, timeout, sinceWokStart, i,
                   weightList, dev, writes, hist, framesEmitted, tr>>

\* the third DirectCommand has returned: return err
SetTargetReturn ==
    /\ pc = "dc_ret"
    /\ caller = TargetSite(2)
    /\ Return(<<>>, dcRet.err)
    /\ buf' = <<>>
    /\ bufFrom' = <<>>
    /\ LeaveDirectCommand
    /\ UNCHANGED <<call, numMeasurements, timeout, command, regex, caller,
                   sinceWokStart, i, weightList, dev, writes, hist,
                   framesEmitted, tr>>

----------------------------------------------------------------------------

Next ==
    \/ \E n \in 0..MaxCount, t \in 0..MaxTimeoutArg : CallWeightOnKey(n, t)
    \/ CallGetDoorStatus
    \/ CallPowerOn
    \/ \E line \in DeviceLines(op) : DeviceEmit(line)
    \/ \E ok \in BOOLEAN : DcWrite(ok)
    \/ \E k \in 0..MaxWire, d \in 1..MaxReadDur : DcRead(k, d)
    \/ DcReadFail
    \/ DcExit
    \/ WokStarted
    \/ \E k \in 0..MaxWire, d \in 1..MaxReadDur : WokRead(k, d)
    \/ WokReadFail
    \/ WokExit
    \/ WokStopped
    \/ DoorStatusReturn
    \/ PowerOnReturn

Spec == Init /\ [][Next]_vars

\* a reply that ends the wait of PowerOn and one that does not
DcLines == {LinePwrA, LinePwrI}

\* DirectCommand alone, under a catalog operation that is one call of it
DcNext ==
    \/ CallPowerOn
    \/ \E line \in DcLines : DeviceEmit(line)
    \/ \E ok \in BOOLEAN : DcWrite(ok)
    \/ \E k \in 0..MaxWire, d \in 1..MaxReadDur : DcRead(k, d)
    \/ DcReadFail
    \/ DcExit
    \/ PowerOnReturn

\* the toggle operations
Toggles ==
    {"PowerOn", "PowerOff", "CloseAllDoors", "OpenRightDoor", "OpenLeftDoor"}

ToggleNext ==
    \/ CallPowerOn
    \/ \E o \in Toggles \ {"PowerOn"} : CallToggle(o)
    \/ \E line \in DeviceLines(op) : DeviceEmit(line)
    \/ \E ok \in BOOLEAN : DcWrite(ok)
    \/ \E k \in 0..MaxWire, d \in 1..MaxReadDur : DcRead(k, d)
    \/ DcReadFail
    \/ DcExit
    \/ PowerOnReturn
    \/ ToggleReturn

ToggleSpec == InitCommand /\ [][ToggleNext]_vars

\* SetTarget, called once or twice, with a device that replies to commands
TargetNext ==
    \/ \E a \in TargetArgs : CallSetTarget(a)
    \/ \E line \in DeviceLines(op) : DeviceReply(line)
    \/ \E ok \in BOOLEAN : DcWrite(ok)
    \/ \E k \in 0..MaxWire, d \in 1..MaxReadDur : DcRead(k, d)
    \/ DcReadFail
    \/ DcExit
    \/ \E j \in {0, 1} : SetTargetStep(j)
    \/ SetTargetReturn

TargetSpec == InitCommand /\ [][TargetNext]_vars

\* every Read returns (it may also fail), and a loop whose condition is
\* false is left
LiveSpec ==
    /\ Init
    /\ [][DcNext]_vars
    /\ WF_vars(\E k \in 0..MaxWire, d \in 1..MaxReadDur : DcRead(k, d))
    /\ WF_vars(DcExit)

----------------------------------------------------------------------------
(* The properties *)

StopWrites == Cardinality({j \in 1..Len(writes) : writes[j].cmd = "ST 0\r\n"})

\* what the device means by each of its frames
FrameMeasurement(f) ==
    IF f = Frame1
    THEN [Weight |-> [num |-> 15, exp |-> 1], Unit |-> <<"g">>]
    ELSE [Weight |-> [num |-> -25, exp |-> 1], Unit |-> <<"k", "g">>]

Expected(fs) == [j \in 1..Len(fs) |-> FrameMeasurement(fs[j])]

\* C1: once the start command has been acknowledged, whenever WeightOnKey
\* has returned, the stop command "ST 0" has been written exactly once.
C1_StopOnEveryExit ==
    (op = "WeightOnKey" /\ started /\ pc = "done") => StopWrites = 1

\* C2: when the latest two Reads of a DirectCommand delivered two chunks of
\* which neither matches the pattern and whose concatenation does, the call
\* has detected the match.
C2_SplitResponseDetected ==
    (/\ pc = "dc_loop"
     /\ prevChunk # <<>>
     /\ lastChunk # <<>>
     /\ ~Match(regex, prevChunk)
     /\ ~Match(regex, lastChunk)
     /\ Match(regex, prevChunk \o lastChunk)) => match

\* C3: WeightOnKey called with numMeasurements = 0 and timeout = 0 has
\* returned the configuration error, and has written and read nothing.
C3_ConfigErrorBeforeIo ==
    (op = "WeightOnKey" /\ argN = 0 /\ argT = 0) =>
        /\ pc = "done"
        /\ ret = [val |-> <<>>, err |-> ConfigErr]
        /\ writes = <<>>
        /\ ~hasRead

C3_Witness ==
    op = "WeightOnKey" /\ argN = 0 /\ argT = 0 /\ pc = "done"

\* C4: with a finite count n >= 1 and no timeout, after the start has been
\* acknowledged and as long as every Read of the loop has delivered exactly
\* one whole frame: the loop has read at most n frames, the measurements are
\* those of the frames read, in order, the loop is left at the n-th, and once
\* it is left there are exactly n measurements, the stop command is the next
\* thing written, and the call returns them.
C4_ExactCount ==
    (op = "WeightOnKey" /\ argN >= 1 /\ argT = 0 /\ started /\ onePerRead) =>
        /\ Len(loopFrames) <= argN
        /\ weightList = Expected(loopFrames)
        /\ (pc = "wok_loop" /\ Len(loopFrames) = argN) => ~WokLoopContinues
        /\ (pc = "wok_loop" /\ Len(loopFrames) < argN) => WokLoopContinues
        /\ caller = "WokStop" =>
              /\ Len(weightList) = argN
              /\ StopWrites = (IF pc = "dc_write" THEN 0 ELSE 1)
              /\ pc = "done" => ret = [val |-> weightList, err |-> Nil]

C4_Witness ==
    /\ op = "WeightOnKey" /\ argN = 2 /\ argT = 0 /\ started /\ onePerRead
    /\ pc = "done"
    /\ loopFrames = <<Frame2, Frame1>>
    /\ Len(ret.val) = 2
    /\ StopWrites = 1

\* C5: with numMeasurements = 0 and a finite timeout T, the collection loop
\* is not left before T seconds have elapsed: when its condition is false,
\* time.Since(start) has reached T.
C5_UnboundedCountNeverEndsLoop ==
    (/\ op = "WeightOnKey" /\ argN = 0 /\ argT > 0
     /\ pc = "wok_loop"
     /\ ~WokLoopContinues) => sinceWokStart >= argT

\* C6: when the device answers the start command with "ST A" or with "ST L",
\* DirectCommand("ST 1") has its match, so that the session starts.
C6_BothAcksStart ==
    (/\ op = "WeightOnKey" /\ caller = "WokStart"
     /\ pc = "dc_loop"
     /\ prevChunk = <<>>
     /\ lastChunk \in {LineStA, LineStL}) => match

\* C7: GetDoorStatus does not crash, what it returns without an error is the
\* digit of the device's reply, and what it writes is the status query "WS".
C7_DoorStatus ==
    op = "GetDoorStatus" =>
        /\ pc # "panic"
        /\ (pc = "done" /\ ret.err = Nil) =>
              ret.val \in {<<d>> : d \in DoorDigits}
        /\ \A j \in 1..Len(writes) : writes[j].cmd = "WS\r\n"

\* C8: as every Read returns, a DirectCommand that has written its command
\* returns; and unless the transport failed, it returns either a buffer that
\* matches the pattern and no error, or the timeout error.
C8_Terminates ==
    /\ [](pc = "dc_loop" => <>(pc = "dc_ret"))
    /\ []((pc = "dc_ret" /\ lastIoOk) =>
            \/ dcRet.err = Nil /\ Match(regex, dcRet.buf)
            \/ dcRet.err.kind = "timeout")

C8_Witness ==
    /\ pc = "dc_ret"
    /\ dcRet.err.kind = "timeout"
    /\ sinceDcStart >= CommandTimeout
    /\ lastChunk # <<>>

\* C9: a DirectCommand that returns without a match returns the timeout error
\* that holds the command, the pattern and the bytes of the buffer; and one
\* that returns no error had its match by the time the 5 seconds were over.
C9_TimeoutReported ==
    pc = "dc_ret" =>
        /\ (lastIoOk /\ ~match) =>
              dcRet.err = TimeoutErr(command, regex, dcRet.buf)
        /\ dcRet.err = Nil => sinceDcStart <= CommandTimeout

\* C10: DirectCommand is in its read loop only while every Write and Read has
\* succeeded; after one that failed it has returned a nil slice and the
\* transport error, and after a failed Write it has read nothing.
C10_TransportFailureAborts ==
    /\ pc = "dc_loop" => lastIoOk
    /\ (pc = "dc_ret" /\ ~lastIoOk) =>
          dcRet = [buf |-> NilSlice, err |-> TransportErr]
    /\ (pc = "dc_ret" /\ ~writes[Len(writes)].ok) =>
          /\ lastChunk = <<>>
          /\ Len(writes) = 1 => ~hasRead

C10_Witness ==
    /\ pc = "dc_ret"
    /\ ~lastIoOk
    /\ writes[Len(writes)].ok
    /\ lastChunk # <<>>

\* C12: when the stop command issued after the collection loop has failed,
\* by a transport error or by its timeout, WeightOnKey has still returned the
\* measurements it collected and no error.
C12_StopFailureNotSurfaced ==
    (op = "WeightOnKey" /\ pc = "done" /\ stopErr \in {"transport", "timeout"})
        => ret = [val |-> weightList, err |-> Nil]

C12_Witness ==
    /\ op = "WeightOnKey" /\ pc = "done"
    /\ stopErr = "timeout"
    /\ Len(ret.val) >= 1
    /\ ret.err = Nil

\* C14: in a call of WeightOnKey the counter i is the length of weightList,
\* is never negative, never exceeds a finite numMeasurements, and no step
\* decreases it.
C14_CounterMatchesList ==
    /\ [](op = "WeightOnKey" =>
            /\ i = Len(weightList)
            /\ i >= 0
            /\ argN >= 1 => i <= argN)
    /\ [][i' >= i]_vars

C14_Witness ==
    /\ op = "WeightOnKey" /\ pc = "wok_loop"
    /\ argN = MaxCount
    /\ i = argN
    /\ Len(weightList) = argN

\* C15: a Read of the collection loop that delivers bytes and adds a
\* measurement never brings the number of measurements above the number of
\* frames the device has sent.
C15_MeasurementsAreDistinctFrames ==
    [][(/\ op = "WeightOnKey"
        /\ Len(wire') < Len(wire)
        /\ Len(weightList') > Len(weightList))
       => Len(weightList') <= framesEmitted]_vars

\* C17: when WeightOnKey has returned an error after its start command was
\* acknowledged, the error is the one that ended the collection loop and the
\* measurement sequence returned is empty, whatever had been collected.
C17_LoopErrorDropsList ==
    (op = "WeightOnKey" /\ pc = "done" /\ started /\ ret.err # Nil) =>
        /\ ret.val = <<>>
        /\ ret.err = TransportErr
        /\ ~lastIoOk
        /\ stopErr = "none"

C17_Witness ==
    /\ op = "WeightOnKey" /\ pc = "done" /\ started
    /\ ret.err = TransportErr
    /\ Len(weightList) >= 1
    /\ ret.val = <<>>

\* C18: a WeightOnKey whose start command was not acknowledged never enters
\* the collection loop: it has written the start command only, has made no
\* Read of the loop, and returns the error of the start command with an empty
\* measurement sequence.
C18_UnackedStartReturnsError ==
    (op = "WeightOnKey" /\ ~BothInfinite(argN, argT) /\ ~started) =>
        /\ pc # "wok_loop"
        /\ caller # "WokStop"
        /\ onePerRead /\ loopFrames = <<>>
        /\ \A j \in 1..Len(writes) : writes[j].cmd = "ST 1\r\n"
        /\ pc = "done" =>
              /\ ret.val = <<>>
              /\ ret.err.kind \in {"transport", "timeout"}
              /\ Len(writes) = 1

C18_Witness ==
    /\ op = "WeightOnKey" /\ pc = "done" /\ ~started
    /\ ret.err.kind = "timeout"
    /\ hasRead

\* C13: in a call of a toggle operation, a Read that delivers a reply with
\* the letter A or L after the verb gives DirectCommand its match, so that
\* the operation returns no error; and the operation has returned no error
\* only if the device has sent such a reply.
C13_ToggleAcks ==
    op \in Toggles =>
        /\ (pc = "dc_loop" /\ lastChunk \in AckLines(op)) => match
        /\ (pc = "done" /\ ret.err = Nil) => ackSent

\* the Write calls of the current call
CallWrites == SubSeq(writes, marks[Len(marks)] + 1, Len(writes))

\* how the protocol writes each number the arguments hold
Shown(v) ==
    CASE v = [num |-> 125, exp |-> 1] -> "12.50"
      [] v = [num |-> -3, exp |-> 0] -> "-3.00"
      [] v = [num |-> 1, exp |-> 1] -> "0.10"
      [] v = [num |-> 2, exp |-> 1] -> "0.20"

\* the three lines a SetTarget with absolute tolerances is to write
TargetLines(a) ==
    << "A10 0 " \o Shown(a.target) \o " " \o a.unit \o "\r\n",
       "A10 1 " \o Shown(a.upperTolerance) \o " " \o a.unit \o "\r\n",
       "A10 2 " \o Shown(a.lowerTolerance) \o " " \o a.unit \o "\r\n" >>

\* how many commands of the current call were acknowledged before the one
\* at call site c
SiteIndex(c) ==
    CASE c = "SetTarget0" -> 0 [] c = "SetTarget1" -> 1 [] c = "SetTarget2" -> 2

\* C11: a SetTarget with relativeTolerance = false writes at most three
\* commands, the value, the upper and the lower tolerance in this order, each
\* with the given unit; a command is written only after DirectCommand has
\* returned the one before it with a match of A10 A and no error; a call that
\* returned no error has written all three, and when a command fails its
\* error is returned and nothing more is written.
C11_ThreeCommandsInOrder ==
    /\ []((op = "SetTarget" /\ ~target.relativeTolerance) =>
            /\ Len(CallWrites) <= 3
            /\ \A j \in 1..Len(CallWrites) :
                  CallWrites[j].cmd = TargetLines(target)[j]
            /\ Len(CallWrites) =
                  SiteIndex(caller) + (IF pc = "dc_write" THEN 0 ELSE 1)
            /\ (pc = "done" /\ ret.err = Nil) =>
                  /\ Len(CallWrites) = 3
                  /\ \A j \in 1..3 : CallWrites[j].ok)
    /\ [][(op = "SetTarget" /\ pc = "dc_ret" /\ pc' # pc) =>
            IF dcRet.err = Nil
            THEN /\ Match(TargetRegex, dcRet.buf)
                 /\ pc' = (IF caller = "SetTarget2" THEN "done" ELSE "dc_write")
                 /\ ret'.err = Nil
            ELSE /\ pc' = "done"
                 /\ ret'.err = dcRet.err
                 /\ writes' = writes]_vars

C11_Witness ==
    /\ op = "SetTarget" /\ pc = "done" /\ ret.err = Nil
    /\ ~target.relativeTolerance
    /\ [j \in 1..Len(CallWrites) |-> CallWrites[j].cmd] =
          <<"A10 0 12.50 g\r\n", "A10 1 0.10 g\r\n", "A10 2 0.20 g\r\n">>

\* whether the pattern src has a match in s that consists only of bytes the
\* device sent in reply to command number n
MatchFrom(src, s, from, n) ==
    \E p \in 1..Len(s) :
        LET ends == MatchEnds(Compile(src).re, s, p, 1)
        IN /\ ends # NoMatch
           /\ \A x \in p..(ends[Len(ends)] - 1) : from[x] = n

\* C16: when a DirectCommand of SetTarget has its match, the buffer holds a
\* match made of bytes the device sent in reply to the command this
\* DirectCommand wrote.
C16_ResponseIsReplyToCommand ==
    (op = "SetTarget" /\ pc \in {"dc_loop", "dc_ret"} /\ match) =>
        MatchFrom(regex, buf, bufFrom, Sent)

====
